---- MODULE Spec2Model ----
(***************************************************************************)
(* Model of the order service: the Kafka consumer (claim loops, marking    *)
(* and committing offsets), the order processor (accumulation buffer,      *)
(* batch flush through the worker pool), the PostgreSQL store and the      *)
(* composition root.                                                       *)
(***************************************************************************)
EXTENDS Integers, Sequences, FiniteSets, TLC

\* ---------------------------------------------------------------- bounds
\* Number of partitions of the topic and messages held by each partition.
NumPartitions == 1
MsgsPerPartition == 3
\* lib/workerpool MaxWorkersCount is 10 and kafka batchsize is 100 in the
\* source; the model runs them scaled down.
MaxWorkersCount == 2
batchsize == 2
\* Environment events: process kills, rebalances, transient store errors.
MaxCrashes == 1
MaxRebalances == 1
MaxStoreFailures == 1
\* Callers of Pool.Handle beyond the pool's capacity.
ExtraCallers == 2
\* Concurrent callers of Storage.SaveOrder.
NumSavers == 2
\* Orders the store holds when the cache warmer runs.
WarmOrders == 2
\* Concurrent read requests and cache errors the environment produces.
NumReqs == 2
\* Times the read path sees one order saved.
MaxItemCopies == 2
MaxCacheFailures == 1

Partitions == 0 .. (NumPartitions - 1)
Callers == 1 .. (MaxWorkersCount + ExtraCallers)
Savers == 1 .. NumSavers
Offsets == 0 .. (MsgsPerPartition - 1)
Reqs == 1 .. NumReqs

\* ---------------------------------------------------------------- data
\* A broker message value: either bytes json.Unmarshal rejects, or an order.
OrderUIDs == {"o1", "o2"}
ChrtIDs == {1, 2}
BadPayload == [valid |-> FALSE, order_uid |-> "", items |-> <<>>]
OrderA == [valid |-> TRUE, order_uid |-> "o1", items |-> <<1, 2>>]
OrderB == [valid |-> TRUE, order_uid |-> "o2", items |-> <<>>]
Payloads == {BadPayload, OrderA, OrderB}

\* The topics the model is run on: every assignment whose first partition
\* starts with a decodable order.
Topics == {t \in [Partitions -> [1 .. MsgsPerPartition -> Payloads]] :
             /\ t[0][1] = OrderA
             /\ \A p \in Partitions : t[p][MsgsPerPartition] # BadPayload \/ p = 0}

\* sarama.ConsumerMessage: the coordinates of a message.
Msg(p, k) == [partition |-> p, offset |-> k]
Msgs == {Msg(p, k) : p \in Partitions, k \in Offsets}
NoMsg == [partition |-> -1, offset |-> -1]
\* The topic of the runs that do not consume.
IdleTopic == [p \in Partitions |-> [k \in 1 .. MsgsPerPartition |-> OrderA]]

VARIABLES
  \* broker and store (survive a kill of the process)
  topic,        \* topic[p][k+1]: value of the message at offset k of p
  committed,    \* committed[p]: offset committed for the group
  ordersTbl,    \* table orders: set of order_uid
  itemsTbl,     \* table order_items: [order_uid, chrt_id] -> number of rows
  \* process
  ctxCancelled, \* root context cancelled
  loopPc,       \* Consumer.ProcessMessages
  sessCancelled,\* session context cancelled
  claimPc,      \* ConsumeClaim of each partition
  held,         \* message a claim loop took and has not yet forwarded
  next,         \* next offset the claim delivers
  offered,      \* offsets the claim loop has sent on orderChan in this session
  processed,    \* ConsumeClaim's counter
  marked,       \* offset marked in the session (partition offset manager)
  procPc,       \* Processor.ProcessOrders
  orders,       \* its accumulation buffer
  taskPc,       \* batch tasks of processBatch, one per buffered message
  pool,         \* number of tokens in Pool.pool
  \* environment budget
  crashes, rebalances, storeFails,
  \* history
  ackRecv,      \* messages the consumer received from commitChan
  \* callers of Pool.Handle
  hPc,          \* position of each caller inside Handle
  hErr,         \* what Handle returned to it
  \* callers of Storage.SaveOrder
  txPc,         \* position of each caller inside SaveOrder
  txOrder,      \* the order it was called with
  txRow,        \* its transaction holds an uncommitted orders row
  txErr,        \* the sub-step that failed, "" when none
  \* composition root (main)
  mainPc,       \* position of main
  wg,           \* counter of main's WaitGroup
  procTask,     \* goroutine processor.ProcessOrders
  procBuf,      \* number of messages in its buffer
  consTask,     \* goroutine c.ProcessMessages
  warmTask,     \* goroutine cache.Fill
  warmLeft,     \* orders the warmer has still to set
  httpTask,     \* goroutine srv.ListenAndServe
  exitCode,     \* exit code of the process, -1 while it runs
  \* cache and read handler (GET /order/{order_uid})
  cache,        \* Redis: order_uid -> <<>> (no key) or <<JSON value>>
  cacheFails,   \* cache errors the environment has produced
  panicked,     \* a goroutine panicked: the process is gone
  rPc,          \* position of each request inside the handler
  rUID,         \* its order_uid URL parameter
  rData,        \* its variable orderData
  rErr,         \* its variable err, shared with the goroutine it starts
  rResp,        \* envelopes rendered to its ResponseWriter
  rStore,       \* number of storage.GetOrder calls it made
  rHit,         \* its cache.GetOrder found the key
  rCancel,      \* its client has disconnected (r.Context() cancelled)
  wPc,          \* the goroutine of its asynchronous cache write
  \* cache warmer (Client.Warm)
  warmPc,       \* position inside Warm
  warmOrders,   \* orders the bulk read returned, not yet set
  warmRead,     \* the whole result of the bulk read
  warmErr       \* what Warm returned, "" while it runs

brokerVars == <<topic, committed>>
storeVars == <<ordersTbl, itemsTbl>>
consVars == <<loopPc, sessCancelled, claimPc, held, next, offered, processed,
              marked>>
procVars == <<procPc, orders, taskPc, pool>>
envVars == <<crashes, rebalances, storeFails>>
handleVars == <<hPc, hErr>>
txVars == <<txPc, txOrder, txRow, txErr>>
\* variables the consume-process-commit loop does not touch
mainVars == <<mainPc, wg, procTask, procBuf, consTask, warmTask, warmLeft,
              httpTask, exitCode>>
readVars == <<cache, cacheFails, panicked, rPc, rUID, rData, rErr, rResp, rStore,
              rHit, rCancel, wPc>>
warmVars == <<warmPc, warmOrders, warmRead, warmErr>>
aux == <<handleVars, txVars, mainVars, readVars, warmVars>>
vars == <<brokerVars, storeVars, ctxCancelled, consVars, procVars, envVars, ackRecv, aux>>

Value(m) == topic[m.partition][m.offset + 1]

\* ---------------------------------------------------------------- store
ItemKeys == OrderUIDs \X ChrtIDs
EmptyItems == [k \in ItemKeys |-> 0]

\* Number of occurrences of chrt_id c in an item list.
CountIn(items, c) == Cardinality({i \in 1 .. Len(items) : items[i] = c})

\* INSERT INTO orders ... ON CONFLICT (order_uid) DO NOTHING
saveOrder(tbl, order) == tbl \cup {order.order_uid}

\* INSERT INTO order_items: one row per item of the list, nothing for an
\* empty list.
saveItems(tbl, items, orderUID) ==
  IF Len(items) = 0 THEN tbl
  ELSE [k \in ItemKeys |->
          IF k[1] = orderUID THEN tbl[k] + CountIn(items, k[2]) ELSE tbl[k]]

\* ---------------------------------------------------------------- pool
\* Pool.Create: MaxWorkersCount tokens are sent to the channel.
Create(tokens) == tokens + MaxWorkersCount
\* Pool.Wait: MaxWorkersCount tokens are received from the channel.
Wait(tokens) == tokens - MaxWorkersCount

\* ---------------------------------------------------------------- consumer
Max(a, b) == IF a > b THEN a ELSE b

\* MarkMessage marking one offset too far.
MarkMessage_OffByOne(mk, msg) ==
  [mk EXCEPT ![msg.partition] = Max(mk[msg.partition], msg.offset + 2)]

\* session.MarkMessage: marks offset+1, only ever forward.
MarkMessage(mk, msg) ==
  [mk EXCEPT ![msg.partition] = Max(mk[msg.partition], msg.offset + 1)]

\* session.Commit: the marked offsets are written to the broker.
Commit(mk) == mk

InitVolatile ==
  /\ ctxCancelled = FALSE
  /\ loopPc = "loop"
  /\ sessCancelled = FALSE
  /\ claimPc = [p \in Partitions |-> "none"]
  /\ held = [p \in Partitions |-> NoMsg]
  /\ next = [p \in Partitions |-> 0]
  /\ offered = [p \in Partitions |-> <<>>]
  /\ processed = [p \in Partitions |-> 0]
  /\ marked = [p \in Partitions |-> 0]
  /\ procPc = "select"
  /\ orders = <<>>
  /\ taskPc = <<>>
  /\ pool = 0

\* Nobody is inside Pool.Handle.
InitHandle ==
  /\ hPc = [c \in Callers |-> "idle"]
  /\ hErr = [c \in Callers |-> ""]

\* Nobody is inside Storage.SaveOrder.
InitTx ==
  /\ txPc = [s \in Savers |-> "idle"]
  /\ txOrder = [s \in Savers |-> BadPayload]
  /\ txRow = [s \in Savers |-> FALSE]
  /\ txErr = [s \in Savers |-> ""]

\* main has not started its tasks.
InitMain ==
  /\ mainPc = "storage"
  /\ wg = 0
  /\ procTask = "none" /\ procBuf = 0
  /\ consTask = "none"
  /\ warmTask = "none" /\ warmLeft = 0
  /\ httpTask = "none"
  /\ exitCode = -1

\* A nil *models.OrderData.
NilOrder == [order_uid |-> "", items |-> [c \in ChrtIDs |-> 0]]

\* An empty Redis, no request in flight.
InitRead ==
  /\ cache = [u \in OrderUIDs |-> <<>>]
  /\ cacheFails = 0
  /\ panicked = FALSE
  /\ rPc = [r \in Reqs |-> "idle"]
  /\ rUID = [r \in Reqs |-> ""]
  /\ rData = [r \in Reqs |-> NilOrder]
  /\ rErr = [r \in Reqs |-> "nil"]
  /\ rResp = [r \in Reqs |-> <<>>]
  /\ rStore = [r \in Reqs |-> 0]
  /\ rHit = [r \in Reqs |-> FALSE]
  /\ rCancel = [r \in Reqs |-> FALSE]
  /\ wPc = [r \in Reqs |-> "none"]

\* Warm has not been called.
InitWarm ==
  /\ warmPc = "idle"
  /\ warmOrders = {}
  /\ warmRead = {}
  /\ warmErr = ""

InitDurable ==
  /\ committed = [p \in Partitions |-> 0]
  /\ ordersTbl = {}
  /\ itemsTbl = EmptyItems
  /\ crashes = 0 /\ rebalances = 0 /\ storeFails = 0
  /\ ackRecv = {}

Init ==
  /\ topic \in Topics
  /\ InitDurable
  /\ InitVolatile
  /\ InitHandle
  /\ InitTx
  /\ InitMain
  /\ InitRead
  /\ InitWarm

\* ProcessMessages, default branch: Consume starts a session; every claim
\* starts at the committed offset.
Consume ==
  /\ loopPc = "loop" /\ ~ctxCancelled
  /\ loopPc' = "consume"
  /\ sessCancelled' = FALSE
  /\ claimPc' = [p \in Partitions |-> "select"]
  /\ held' = [p \in Partitions |-> NoMsg]
  /\ next' = committed
  /\ offered' = [p \in Partitions |-> <<>>]
  /\ marked' = committed
  /\ processed' = [p \in Partitions |-> 0]
  /\ UNCHANGED <<aux, brokerVars, storeVars, ctxCancelled, procVars, envVars, ackRecv>>

\* ProcessMessages, case <-ctx.Done().
LoopExit ==
  /\ loopPc = "loop" /\ ctxCancelled
  /\ loopPc' = "done"
  /\ UNCHANGED <<aux, brokerVars, storeVars, ctxCancelled, sessCancelled, claimPc,
                 held, next, offered, processed, marked, procVars, envVars, ackRecv>>

\* The claim handing out the messages of the partition last offset first.
ClaimMessage_Backwards(p) ==
  /\ claimPc[p] = "select"
  /\ next[p] < MsgsPerPartition
  /\ held' = [held EXCEPT ![p] = Msg(p, MsgsPerPartition - 1 - next[p])]
  /\ next' = [next EXCEPT ![p] = next[p] + 1]
  /\ UNCHANGED offered
  /\ claimPc' = [claimPc EXCEPT ![p] = "send"]
  /\ UNCHANGED <<aux, brokerVars, storeVars, ctxCancelled, loopPc, sessCancelled,
                 processed, marked, procVars, envVars, ackRecv>>

\* ConsumeClaim, case msg, ok := <-claim.Messages() with ok: the loop now
\* holds msg and goes to send it on orderChan.
ClaimMessage(p) ==
  /\ claimPc[p] = "select"
  /\ next[p] < MsgsPerPartition
  /\ held' = [held EXCEPT ![p] = Msg(p, next[p])]
  /\ next' = [next EXCEPT ![p] = next[p] + 1]
  /\ UNCHANGED offered
  /\ claimPc' = [claimPc EXCEPT ![p] = "send"]
  /\ UNCHANGED <<aux, brokerVars, storeVars, ctxCancelled, loopPc, sessCancelled,
                 processed, marked, procVars, envVars, ackRecv>>

\* The processor flushing only once the buffer exceeds MaxWorkersCount.
ForwardOrder_FlushLate(p) ==
  /\ claimPc[p] = "send"
  /\ procPc = "select"
  /\ LET buf == Append(orders, held[p]) IN
       /\ orders' = buf
       /\ IF Len(buf) = MaxWorkersCount + 1
          THEN /\ procPc' = "batch"
               /\ pool' = Create(pool)
               /\ taskPc' = [i \in 1 .. Len(buf) |-> "wait"]
          ELSE UNCHANGED <<procPc, pool, taskPc>>
  /\ claimPc' = [claimPc EXCEPT ![p] = "select"]
  /\ held' = [held EXCEPT ![p] = NoMsg]
  /\ offered' = [offered EXCEPT ![p] = Append(offered[p], held[p].offset)]
  /\ UNCHANGED <<aux, brokerVars, storeVars, ctxCancelled, loopPc, sessCancelled,
                 next, processed, marked, envVars, ackRecv>>

\* h.orderChan <- msg meets order := <-p.orderChan: the processor appends
\* the message and flushes when the buffer holds MaxWorkersCount messages.
ForwardOrder(p) ==
  /\ claimPc[p] = "send"
  /\ procPc = "select"
  /\ LET buf == Append(orders, held[p]) IN
       /\ orders' = buf
       /\ IF Len(buf) = MaxWorkersCount
          THEN /\ procPc' = "batch"
               /\ pool' = Create(pool)
               /\ taskPc' = [i \in 1 .. Len(buf) |-> "wait"]
          ELSE UNCHANGED <<procPc, pool, taskPc>>
  /\ claimPc' = [claimPc EXCEPT ![p] = "select"]
  /\ held' = [held EXCEPT ![p] = NoMsg]
  /\ offered' = [offered EXCEPT ![p] = Append(offered[p], held[p].offset)]
  /\ UNCHANGED <<aux, brokerVars, storeVars, ctxCancelled, loopPc, sessCancelled,
                 next, processed, marked, envVars, ackRecv>>

\* ProcessOrders, case <-ctx.Done(): flush what is buffered, then return.
ProcCancel ==
  /\ procPc = "select" /\ ctxCancelled
  /\ IF Len(orders) # 0
     THEN /\ procPc' = "lastbatch"
          /\ pool' = Create(pool)
          /\ taskPc' = [i \in 1 .. Len(orders) |-> "wait"]
     ELSE /\ procPc' = "done"
          /\ UNCHANGED <<pool, taskPc>>
  /\ UNCHANGED <<aux, brokerVars, storeVars, ctxCancelled, consVars, orders,
                 envVars, ackRecv>>

InBatch == procPc \in {"batch", "lastbatch"}

\* Pool.Handle: w := <-p.pool
TaskAcquire(i) ==
  /\ InBatch /\ i \in DOMAIN taskPc /\ taskPc[i] = "wait"
  /\ pool > 0
  /\ pool' = pool - 1
  /\ taskPc' = [taskPc EXCEPT ![i] = "run"]
  /\ UNCHANGED <<aux, brokerVars, storeVars, ctxCancelled, consVars, procPc,
                 orders, envVars, ackRecv>>

\* processOrder returning nil although SaveOrder failed.
processOrder_SwallowError(msg, ok) ==
  LET order == Value(msg) IN
    IF ~order.valid
    THEN [err |-> "unmarshal", orders |-> ordersTbl, items |-> itemsTbl]
    ELSE IF ok /\ ~ctxCancelled
    THEN [err |-> "nil",
          orders |-> saveOrder(ordersTbl, order),
          items |-> saveItems(itemsTbl, order.items, order.order_uid)]
    ELSE [err |-> "nil", orders |-> ordersTbl, items |-> itemsTbl]

\* processOrder: json.Unmarshal, then Storage.SaveOrder as one transaction.
\* ok = FALSE is a failed sub-step of SaveOrder (rolled back); with a
\* cancelled context ExecContext fails.  The result is the error and the
\* tables after the call.
processOrder(msg, ok) ==
  LET order == Value(msg) IN
    IF ~order.valid
    THEN [err |-> "unmarshal", orders |-> ordersTbl, items |-> itemsTbl]
    ELSE IF ok /\ ~ctxCancelled
    THEN [err |-> "nil",
          orders |-> saveOrder(ordersTbl, order),
          items |-> saveItems(itemsTbl, order.items, order.order_uid)]
    ELSE [err |-> "save", orders |-> ordersTbl, items |-> itemsTbl]

\* The task publishing on commitChan whatever Handle returned.
TaskHandle_AckAlways(i, ok) ==
  /\ InBatch /\ i \in DOMAIN taskPc /\ taskPc[i] = "run"
  /\ ok \/ (Value(orders[i]).valid /\ storeFails < MaxStoreFailures)
  /\ LET r == processOrder(orders[i], ok) IN
       /\ ordersTbl' = r.orders
       /\ itemsTbl' = r.items
       /\ taskPc' = [taskPc EXCEPT ![i] = "ack"]
  /\ storeFails' = IF ok THEN storeFails ELSE storeFails + 1
  /\ pool' = pool + 1
  /\ UNCHANGED <<aux, brokerVars, ctxCancelled, consVars, procPc, orders, crashes,
                 rebalances, ackRecv>>

\* The handler returns inside Pool.Handle, the deferred send gives the token
\* back, and the task goes on to acknowledge (err == nil) or to finish.
TaskHandle(i, ok) ==
  /\ InBatch /\ i \in DOMAIN taskPc /\ taskPc[i] = "run"
  /\ ok \/ (Value(orders[i]).valid /\ storeFails < MaxStoreFailures)
  /\ LET r == processOrder(orders[i], ok) IN
       /\ ordersTbl' = r.orders
       /\ itemsTbl' = r.items
       /\ taskPc' = [taskPc EXCEPT ![i] = IF r.err = "nil" THEN "ack" ELSE "done"]
  /\ storeFails' = IF ok THEN storeFails ELSE storeFails + 1
  /\ pool' = pool + 1
  /\ UNCHANGED <<aux, brokerVars, ctxCancelled, consVars, procPc, orders, crashes,
                 rebalances, ackRecv>>

\* One acknowledgement standing for the whole batch: every message of the
\* batch is marked and every waiting task is released.
AckMessage_WholeBatch(i, p) ==
  /\ InBatch /\ i \in DOMAIN taskPc /\ taskPc[i] = "ack"
  /\ claimPc[p] = "select"
  /\ LET mk == MarkMessage(marked, orders[Len(orders)]) IN
       /\ marked' = mk
       /\ IF processed[p] + 1 >= batchsize
          THEN /\ committed' = Commit(mk)
               /\ processed' = [processed EXCEPT ![p] = 0]
          ELSE /\ processed' = [processed EXCEPT ![p] = processed[p] + 1]
               /\ UNCHANGED committed
  /\ taskPc' = [j \in DOMAIN taskPc |-> IF taskPc[j] = "ack" THEN "done" ELSE taskPc[j]]
  /\ ackRecv' = ackRecv \cup {orders[j] : j \in DOMAIN orders}
  /\ UNCHANGED <<aux, topic, storeVars, ctxCancelled, loopPc, sessCancelled, claimPc,
                 held, next, offered, procPc, orders, pool, envVars>>

\* The claim loop committing without resetting its counter.
AckMessage_NoReset(i, p) ==
  /\ InBatch /\ i \in DOMAIN taskPc /\ taskPc[i] = "ack"
  /\ claimPc[p] = "select"
  /\ LET mk == MarkMessage(marked, orders[i]) IN
       /\ marked' = mk
       /\ processed' = [processed EXCEPT ![p] = processed[p] + 1]
       /\ IF processed[p] + 1 >= batchsize
          THEN committed' = Commit(mk)
          ELSE UNCHANGED committed
  /\ taskPc' = [taskPc EXCEPT ![i] = "done"]
  /\ ackRecv' = ackRecv \cup {orders[i]}
  /\ UNCHANGED <<aux, topic, storeVars, ctxCancelled, loopPc, sessCancelled, claimPc,
                 held, next, offered, procPc, orders, pool, envVars>>

\* p.commitChan <- currentOrder meets case msg := <-h.commitChan of the claim
\* loop of partition p: mark, count, commit every batchsize.
AckMessage(i, p) ==
  /\ InBatch /\ i \in DOMAIN taskPc /\ taskPc[i] = "ack"
  /\ claimPc[p] = "select"
  /\ LET mk == MarkMessage(marked, orders[i]) IN
       /\ marked' = mk
       /\ IF processed[p] + 1 >= batchsize
          THEN /\ committed' = Commit(mk)
               /\ processed' = [processed EXCEPT ![p] = 0]
          ELSE /\ processed' = [processed EXCEPT ![p] = processed[p] + 1]
               /\ UNCHANGED committed
  /\ taskPc' = [taskPc EXCEPT ![i] = "done"]
  /\ ackRecv' = ackRecv \cup {orders[i]}
  /\ UNCHANGED <<aux, topic, storeVars, ctxCancelled, loopPc, sessCancelled, claimPc,
                 held, next, offered, procPc, orders, pool, envVars>>

\* processBatch returning without waiting for its tasks.
BatchDone_NoBarrier ==
  /\ InBatch
  /\ pool' = 0
  /\ taskPc' = <<>>
  /\ orders' = <<>>
  /\ procPc' = IF procPc = "batch" THEN "select" ELSE "done"
  /\ UNCHANGED <<aux, brokerVars, storeVars, ctxCancelled, consVars, envVars, ackRecv>>

\* processBatch: wg.Wait() returns, pool.Wait() drains the tokens.
BatchDone ==
  /\ InBatch
  /\ \A i \in DOMAIN taskPc : taskPc[i] = "done"
  /\ pool' = Wait(pool)
  /\ taskPc' = <<>>
  /\ orders' = <<>>
  /\ procPc' = IF procPc = "batch" THEN "select" ELSE "done"
  /\ UNCHANGED <<aux, brokerVars, storeVars, ctxCancelled, consVars, envVars, ackRecv>>

\* The broker rebalances the group: the session context is cancelled.
Rebalance ==
  /\ loopPc = "consume" /\ ~sessCancelled
  /\ rebalances < MaxRebalances
  /\ sessCancelled' = TRUE
  /\ rebalances' = rebalances + 1
  /\ UNCHANGED <<aux, brokerVars, storeVars, ctxCancelled, loopPc, claimPc, held,
                 next, offered, processed, marked, procVars, crashes, storeFails, ackRecv>>

\* main: <-sigchan; cancel().  The session context derives from ctx.
RootCancel ==
  /\ ~ctxCancelled
  /\ ctxCancelled' = TRUE
  /\ sessCancelled' = (loopPc = "consume")
  /\ UNCHANGED <<aux, brokerVars, storeVars, loopPc, claimPc, held, next, offered, processed,
                 marked, procVars, envVars, ackRecv>>

\* ConsumeClaim, case <-session.Context().Done(): commit and return.
ClaimCtxDone(p) ==
  /\ claimPc[p] = "select" /\ sessCancelled
  /\ committed' = Commit(marked)
  /\ claimPc' = [claimPc EXCEPT ![p] = "returned"]
  /\ UNCHANGED <<aux, topic, storeVars, ctxCancelled, loopPc, sessCancelled, held,
                 next, offered, processed, marked, procVars, envVars, ackRecv>>

\* ConsumeClaim, case msg, ok := <-claim.Messages() with !ok: the channel is
\* closed once the session ends; return nil.
ClaimClosed(p) ==
  /\ claimPc[p] = "select" /\ sessCancelled
  /\ claimPc' = [claimPc EXCEPT ![p] = "returned"]
  /\ UNCHANGED <<aux, brokerVars, storeVars, ctxCancelled, loopPc, sessCancelled,
                 held, next, offered, processed, marked, procVars, envVars, ackRecv>>

\* Every ConsumeClaim has returned: Consume returns to ProcessMessages.
ConsumeReturn ==
  /\ loopPc = "consume"
  /\ \A p \in Partitions : claimPc[p] = "returned"
  /\ loopPc' = "loop"
  /\ claimPc' = [p \in Partitions |-> "none"]
  /\ UNCHANGED <<aux, brokerVars, storeVars, ctxCancelled, sessCancelled, held, next, offered,
                 processed, marked, procVars, envVars, ackRecv>>

\* The process is killed and started again: only broker and store survive.
Crash ==
  /\ crashes < MaxCrashes
  /\ crashes' = crashes + 1
  /\ ctxCancelled' = FALSE
  /\ loopPc' = "loop"
  /\ sessCancelled' = FALSE
  /\ claimPc' = [p \in Partitions |-> "none"]
  /\ held' = [p \in Partitions |-> NoMsg]
  /\ next' = [p \in Partitions |-> 0]
  /\ offered' = [p \in Partitions |-> <<>>]
  /\ processed' = [p \in Partitions |-> 0]
  /\ marked' = [p \in Partitions |-> 0]
  /\ procPc' = "select"
  /\ orders' = <<>>
  /\ taskPc' = <<>>
  /\ pool' = 0
  /\ UNCHANGED <<aux, brokerVars, storeVars, rebalances, storeFails, ackRecv>>

Next ==
  \/ Consume
  \/ LoopExit
  \/ \E p \in Partitions : ClaimMessage(p)
  \/ \E p \in Partitions : ForwardOrder(p)
  \/ ProcCancel
  \/ \E i \in 1 .. MaxWorkersCount : TaskAcquire(i)
  \/ \E i \in 1 .. MaxWorkersCount, ok \in BOOLEAN : TaskHandle(i, ok)
  \/ \E i \in 1 .. MaxWorkersCount, p \in Partitions : AckMessage(i, p)
  \/ BatchDone
  \/ Rebalance
  \/ RootCancel
  \/ \E p \in Partitions : ClaimCtxDone(p)
  \/ \E p \in Partitions : ClaimClosed(p)
  \/ ConsumeReturn
  \/ Crash

Spec == Init /\ [][Next]_vars

\* A step of one of the program's goroutines: everything in Next except the
\* rebalance, the interrupt and the kill, which come from outside.
Progress ==
  \/ Consume
  \/ LoopExit
  \/ \E p \in Partitions : ClaimMessage(p) \/ ForwardOrder(p)
  \/ ProcCancel
  \/ \E i \in 1 .. MaxWorkersCount : TaskAcquire(i)
  \/ \E i \in 1 .. MaxWorkersCount, ok \in BOOLEAN : TaskHandle(i, ok)
  \/ \E i \in 1 .. MaxWorkersCount, p \in Partitions : AckMessage(i, p)
  \/ BatchDone
  \/ \E p \in Partitions : ClaimCtxDone(p) \/ ClaimClosed(p)
  \/ ConsumeReturn

\* The Go scheduler runs a goroutine that can take a step.
FairSpec == Spec /\ WF_vars(Progress)

\* ================================================================ PoolSpec
\* Concurrent calls of Pool.Handle on a pool filled by Create.
pipeNoPool == <<brokerVars, storeVars, ctxCancelled, consVars, procPc, orders,
                taskPc, envVars, ackRecv, mainVars, readVars, warmVars>>

PoolInit ==
  /\ topic = IdleTopic
  /\ InitDurable
  /\ ctxCancelled = FALSE
  /\ loopPc = "loop"
  /\ sessCancelled = FALSE
  /\ claimPc = [p \in Partitions |-> "none"]
  /\ held = [p \in Partitions |-> NoMsg]
  /\ next = [p \in Partitions |-> 0]
  /\ offered = [p \in Partitions |-> <<>>]
  /\ processed = [p \in Partitions |-> 0]
  /\ marked = [p \in Partitions |-> 0]
  /\ procPc = "select"
  /\ orders = <<>>
  /\ taskPc = <<>>
  /\ pool = Create(0)
  /\ InitHandle
  /\ InitTx
  /\ InitMain
  /\ InitRead
  /\ InitWarm

\* A goroutine calls pool.Handle(ctx, data).
HandleCall(c) ==
  /\ hPc[c] = "idle"
  /\ hPc' = [hPc EXCEPT ![c] = "wait"]
  /\ UNCHANGED <<pool, hErr, pipeNoPool, txVars>>

\* Handle going on to the handler without receiving a token.
HandleAcquire_NoToken(c) ==
  /\ hPc[c] = "wait"
  /\ pool' = IF pool > 0 THEN pool - 1 ELSE pool
  /\ hPc' = [hPc EXCEPT ![c] = "run"]
  /\ UNCHANGED <<hErr, pipeNoPool, txVars>>

\* w := <-p.pool: receives a token, blocks while the channel is empty.
HandleAcquire(c) ==
  /\ hPc[c] = "wait"
  /\ pool > 0
  /\ pool' = pool - 1
  /\ hPc' = [hPc EXCEPT ![c] = "run"]
  /\ UNCHANGED <<hErr, pipeNoPool, txVars>>

\* Handle giving the token back only when the handler returned nil.
HandleReturn_LeakOnError(c, err) ==
  /\ hPc[c] = "run"
  /\ pool' = IF err = "nil" THEN pool + 1 ELSE pool
  /\ hPc' = [hPc EXCEPT ![c] = "done"]
  /\ hErr' = [hErr EXCEPT ![c] = err]
  /\ UNCHANGED <<pipeNoPool, txVars>>

\* return p.handler(ctx, data), then the deferred p.pool <- w.
HandleReturn(c, err) ==
  /\ hPc[c] = "run"
  /\ pool' = pool + 1
  /\ hPc' = [hPc EXCEPT ![c] = "done"]
  /\ hErr' = [hErr EXCEPT ![c] = err]
  /\ UNCHANGED <<pipeNoPool, txVars>>

PoolNext ==
  \/ \E c \in Callers : HandleCall(c)
  \/ \E c \in Callers : HandleAcquire(c)
  \/ \E c \in Callers, err \in {"nil", "error"} : HandleReturn(c, err)

PoolSpec == PoolInit /\ [][PoolNext]_vars

\* ================================================================ StoreSpec
\* Concurrent calls of Storage.SaveOrder, sub-step by sub-step.  Statements
\* of an open transaction are kept in the transaction (txRow, and the items
\* once txPc = "items") and reach the tables at COMMIT.
pipeNoStore == <<brokerVars, ctxCancelled, consVars, procVars, envVars, ackRecv,
                 mainVars, readVars, warmVars>>
SaveOrders == {OrderA, OrderB}

StoreInit ==
  /\ topic = IdleTopic
  /\ InitDurable
  /\ InitVolatile
  /\ InitHandle
  /\ InitTx
  /\ InitMain
  /\ InitRead
  /\ InitWarm

\* SaveOrder is called: s.db.Beginx().
SaveBegin(s, order, ok) ==
  /\ txPc[s] = "idle"
  /\ txOrder' = [txOrder EXCEPT ![s] = order]
  /\ txPc' = [txPc EXCEPT ![s] = IF ok THEN "begun" ELSE "failed"]
  /\ txErr' = [txErr EXCEPT ![s] = IF ok THEN "" ELSE "begin"]
  /\ UNCHANGED <<txRow, storeVars, pipeNoStore, handleVars>>

\* Another open transaction holds an uncommitted row with this order_uid: the
\* INSERT ... ON CONFLICT waits until that transaction ends.
RowLocked(s) ==
  \E o \in Savers \ {s} :
    /\ txPc[o] \in {"row", "items"}
    /\ txRow[o]
    /\ txOrder[o].order_uid = txOrder[s].order_uid

\* saveOrder executing its INSERT on the database handle, outside the
\* transaction.
SaveOrderRow_NoTx(s, ok) ==
  /\ txPc[s] = "begun"
  /\ ~RowLocked(s)
  /\ IF ok
     THEN /\ ordersTbl' = saveOrder(ordersTbl, txOrder[s])
          /\ txPc' = [txPc EXCEPT ![s] = "row"]
          /\ UNCHANGED txErr
     ELSE /\ txPc' = [txPc EXCEPT ![s] = "failed"]
          /\ txErr' = [txErr EXCEPT ![s] = "order"]
          /\ UNCHANGED ordersTbl
  /\ UNCHANGED <<txOrder, txRow, itemsTbl, pipeNoStore, handleVars>>

\* s.saveOrder: the row is inserted in the transaction unless a committed row
\* has the order_uid (DO NOTHING).  On an error the deferred Rollback runs.
SaveOrderRow(s, ok) ==
  /\ txPc[s] = "begun"
  /\ ~RowLocked(s)
  /\ IF ok
     THEN /\ txRow' = [txRow EXCEPT ![s] = txOrder[s].order_uid \notin ordersTbl]
          /\ txPc' = [txPc EXCEPT ![s] = "row"]
          /\ UNCHANGED txErr
     ELSE /\ txPc' = [txPc EXCEPT ![s] = "failed"]
          /\ txErr' = [txErr EXCEPT ![s] = "order"]
          /\ UNCHANGED txRow
  /\ UNCHANGED <<txOrder, storeVars, pipeNoStore, handleVars>>

\* s.saveItems: nothing is executed for an empty list; otherwise the rows are
\* inserted in the transaction.  On an error the deferred Rollback runs.
SaveItemRows(s, ok) ==
  /\ txPc[s] = "row"
  /\ ok \/ Len(txOrder[s].items) # 0
  /\ IF ok
     THEN /\ txPc' = [txPc EXCEPT ![s] = "items"]
          /\ UNCHANGED <<txErr, txRow>>
     ELSE /\ txPc' = [txPc EXCEPT ![s] = "failed"]
          /\ txErr' = [txErr EXCEPT ![s] = "items"]
          /\ txRow' = [txRow EXCEPT ![s] = FALSE]
  /\ UNCHANGED <<txOrder, storeVars, pipeNoStore, handleVars>>

\* return tx.Commit(): the rows of the transaction reach the tables; when
\* Commit fails err is set and the deferred Rollback runs.
SaveCommit(s, ok) ==
  /\ txPc[s] = "items"
  /\ IF ok
     THEN /\ ordersTbl' = saveOrder(ordersTbl, txOrder[s])
          /\ itemsTbl' = saveItems(itemsTbl, txOrder[s].items, txOrder[s].order_uid)
          /\ txPc' = [txPc EXCEPT ![s] = "done"]
          /\ UNCHANGED txErr
     ELSE /\ txPc' = [txPc EXCEPT ![s] = "failed"]
          /\ txErr' = [txErr EXCEPT ![s] = "commit"]
          /\ UNCHANGED storeVars
  /\ txRow' = [txRow EXCEPT ![s] = FALSE]
  /\ UNCHANGED <<txOrder, pipeNoStore, handleVars>>

StoreNext ==
  \/ \E s \in Savers, order \in SaveOrders, ok \in BOOLEAN : SaveBegin(s, order, ok)
  \/ \E s \in Savers, ok \in BOOLEAN : SaveOrderRow(s, ok)
  \/ \E s \in Savers, ok \in BOOLEAN : SaveItemRows(s, ok)
  \/ \E s \in Savers, ok \in BOOLEAN : SaveCommit(s, ok)

StoreSpec == StoreInit /\ [][StoreNext]_vars

\* The order a SaveOrder call with this order_uid carries.
OrderOf(uid) == CHOOSE o \in SaveOrders : o.order_uid = uid

\* GetOrder reading with a left join: an order row without item rows is
\* returned as an order with no items.
GetOrder_LeftJoin(uid) ==
  LET rows == [c \in ChrtIDs |-> IF uid \in ordersTbl THEN itemsTbl[<<uid, c>>] ELSE 0] IN
    IF uid \notin ordersTbl
    THEN [err |-> "ErrNoOrder", order_uid |-> "", items |-> rows]
    ELSE [err |-> "nil", order_uid |-> uid, items |-> rows]

\* Storage.GetOrder: the inner join of orders and order_items on order_uid;
\* no joined row gives ErrNoOrder, otherwise one order with an item per row.
GetOrder(uid) ==
  LET rows == [c \in ChrtIDs |-> IF uid \in ordersTbl THEN itemsTbl[<<uid, c>>] ELSE 0] IN
    IF \A c \in ChrtIDs : rows[c] = 0
    THEN [err |-> "ErrNoOrder", order_uid |-> "", items |-> rows]
    ELSE [err |-> "nil", order_uid |-> uid, items |-> rows]

\* ================================================================ MainSpec
\* main of cmd/order-service: start-up, the tasks registered on the
\* WaitGroup, the interrupt and the shutdown sequence.
pipeNoCtx == <<brokerVars, storeVars, consVars, procVars, envVars, ackRecv,
               handleVars, txVars, readVars, warmVars>>

MainInit ==
  /\ topic = IdleTopic
  /\ InitDurable
  /\ InitVolatile
  /\ InitHandle
  /\ InitTx
  /\ InitMain
  /\ InitRead
  /\ InitWarm

Running == exitCode = -1

\* postgres.New; on success wg.Add(1); go processor.ProcessOrders(ctx, wg).
MainStorage(ok) ==
  /\ Running /\ mainPc = "storage"
  /\ IF ok
     THEN /\ mainPc' = "cache" /\ wg' = wg + 1 /\ procTask' = "select"
          /\ UNCHANGED exitCode
     ELSE /\ exitCode' = 1
          /\ UNCHANGED <<mainPc, wg, procTask>>
  /\ UNCHANGED <<procBuf, consTask, warmTask, warmLeft, httpTask, ctxCancelled, pipeNoCtx>>

\* main going on without a cache when redis.New fails.
MainCache_Continue(ok) ==
  /\ Running /\ mainPc = "cache"
  /\ mainPc' = "consumer"
  /\ IF ok
     THEN wg' = wg + 1 /\ warmTask' = "get"
     ELSE UNCHANGED <<wg, warmTask>>
  /\ UNCHANGED <<exitCode, procTask, procBuf, consTask, warmLeft, httpTask, ctxCancelled, pipeNoCtx>>

\* redis.New; on success wg.Add(1); go cache.Fill(ctx, storage).
MainCache(ok) ==
  /\ Running /\ mainPc = "cache"
  /\ IF ok
     THEN /\ mainPc' = "consumer" /\ wg' = wg + 1 /\ warmTask' = "get"
          /\ UNCHANGED exitCode
     ELSE /\ exitCode' = 1
          /\ UNCHANGED <<mainPc, wg, warmTask>>
  /\ UNCHANGED <<procTask, procBuf, consTask, warmLeft, httpTask, ctxCancelled, pipeNoCtx>>

\* kafka.NewConsumer; on success wg.Add(1); go c.ProcessMessages(ctx, topic, wg).
MainConsumer(ok) ==
  /\ Running /\ mainPc = "consumer"
  /\ IF ok
     THEN /\ mainPc' = "server" /\ wg' = wg + 1 /\ consTask' = "loop"
          /\ UNCHANGED exitCode
     ELSE /\ exitCode' = 1
          /\ UNCHANGED <<mainPc, wg, consTask>>
  /\ UNCHANGED <<procTask, procBuf, warmTask, warmLeft, httpTask, ctxCancelled, pipeNoCtx>>

\* wg.Add(1); go func() { defer wg.Done(); srv.ListenAndServe() ... }().
MainServer ==
  /\ Running /\ mainPc = "server"
  /\ mainPc' = "signal" /\ wg' = wg + 1 /\ httpTask' = "start"
  /\ UNCHANGED <<procTask, procBuf, consTask, warmTask, warmLeft, exitCode,
                 ctxCancelled, pipeNoCtx>>

\* main closing the consumer and the server without wg.Wait().
MainShutdown_NoBarrier(ok) ==
  /\ Running
  /\ \/ /\ mainPc = "signal" /\ ok
        /\ ctxCancelled' = TRUE
        /\ mainPc' = "wgWait"
        /\ UNCHANGED <<httpTask, exitCode>>
     \/ /\ mainPc = "wgWait" /\ ok
        /\ mainPc' = "close"
        /\ UNCHANGED <<ctxCancelled, httpTask, exitCode>>
     \/ /\ mainPc = "close"
        /\ IF ok THEN mainPc' = "shutdown" /\ UNCHANGED exitCode
                 ELSE exitCode' = 1 /\ UNCHANGED mainPc
        /\ UNCHANGED <<ctxCancelled, httpTask>>
     \/ /\ mainPc = "shutdown"
        /\ httpTask' = IF httpTask = "serving" THEN "closed" ELSE httpTask
        /\ IF ok THEN mainPc' = "return" /\ UNCHANGED exitCode
                 ELSE exitCode' = 1 /\ UNCHANGED mainPc
        /\ UNCHANGED ctxCancelled
     \/ /\ mainPc = "return" /\ ok
        /\ exitCode' = 0
        /\ UNCHANGED <<mainPc, ctxCancelled, httpTask>>
  /\ UNCHANGED <<wg, procTask, procBuf, consTask, warmTask, warmLeft, pipeNoCtx>>

\* main from <-sigchan on: cancel(); wg.Wait(); c.Consumer.Close();
\* srv.Shutdown(context.Background()); return.  wg.Wait() returns once the
\* counter is zero; Close and Shutdown end the process with os.Exit(1) on an
\* error (ok = FALSE); Shutdown makes ListenAndServe return ErrServerClosed;
\* the return of main ends the process with exit code 0.
MainShutdown(ok) ==
  /\ Running
  /\ \/ /\ mainPc = "signal" /\ ok
        /\ ctxCancelled' = TRUE
        /\ mainPc' = "wgWait"
        /\ UNCHANGED <<httpTask, exitCode>>
     \/ /\ mainPc = "wgWait" /\ ok
        /\ wg = 0
        /\ mainPc' = "close"
        /\ UNCHANGED <<ctxCancelled, httpTask, exitCode>>
     \/ /\ mainPc = "close"
        /\ IF ok THEN mainPc' = "shutdown" /\ UNCHANGED exitCode
                 ELSE exitCode' = 1 /\ UNCHANGED mainPc
        /\ UNCHANGED <<ctxCancelled, httpTask>>
     \/ /\ mainPc = "shutdown"
        /\ httpTask' = IF httpTask = "serving" THEN "closed" ELSE httpTask
        /\ IF ok THEN mainPc' = "return" /\ UNCHANGED exitCode
                 ELSE exitCode' = 1 /\ UNCHANGED mainPc
        /\ UNCHANGED ctxCancelled
     \/ /\ mainPc = "return" /\ ok
        /\ exitCode' = 0
        /\ UNCHANGED <<mainPc, ctxCancelled, httpTask>>
  /\ UNCHANGED <<wg, procTask, procBuf, consTask, warmTask, warmLeft, pipeNoCtx>>

\* ProcessOrders receives a message of a running session; a full buffer is
\* flushed and emptied.
ProcReceive ==
  /\ Running /\ procTask = "select" /\ consTask = "consume"
  /\ procBuf' = (procBuf + 1) % MaxWorkersCount
  /\ UNCHANGED <<mainPc, wg, procTask, consTask, warmTask, warmLeft, httpTask,
                 exitCode, ctxCancelled, pipeNoCtx>>

\* ProcessOrders, case <-ctx.Done(): a non-empty buffer is flushed first.
ProcDone ==
  /\ Running /\ ctxCancelled
  /\ \/ /\ procTask = "select" /\ procBuf # 0
        /\ procTask' = "flush" /\ procBuf' = 0
        /\ UNCHANGED wg
     \/ /\ \/ procTask = "select" /\ procBuf = 0
           \/ procTask = "flush"
        /\ procTask' = "done" /\ wg' = wg - 1
        /\ UNCHANGED procBuf
  /\ UNCHANGED <<mainPc, consTask, warmTask, warmLeft, httpTask, exitCode,
                 ctxCancelled, pipeNoCtx>>

\* ProcessMessages: the select of the loop; Consume is called unless the
\* context is cancelled, then the task returns.
ConsLoop ==
  /\ Running /\ consTask = "loop"
  /\ IF ctxCancelled
     THEN consTask' = "done" /\ wg' = wg - 1
     ELSE consTask' = "consume" /\ UNCHANGED wg
  /\ UNCHANGED <<mainPc, procTask, procBuf, warmTask, warmLeft, httpTask,
                 exitCode, ctxCancelled, pipeNoCtx>>

\* What Consume can return: nil when the session ended (rebalance, cancelled
\* context), an error of the broker, or sarama.ErrClosedConsumerGroup.
ConsumeResults == {"nil", "error", "closed"}

\* c.Consumer.Close() has returned nil: from then on Consume returns the
\* sentinel, and never before.
GroupClosed == mainPc \in {"shutdown", "return"}

\* ProcessMessages leaving its loop on every error of Consume.
ConsReturn_ExitOnError(res) ==
  /\ Running /\ consTask = "consume"
  /\ (res = "closed") <=> GroupClosed
  /\ IF res # "nil"
     THEN consTask' = "done" /\ wg' = wg - 1
     ELSE consTask' = "loop" /\ UNCHANGED wg
  /\ UNCHANGED <<mainPc, procTask, procBuf, warmTask, warmLeft, httpTask,
                 exitCode, ctxCancelled, pipeNoCtx>>

\* Consume returns res: on the sentinel ProcessMessages returns; any other
\* error is logged and, as after nil, the loop goes round.
ConsReturn(res) ==
  /\ Running /\ consTask = "consume"
  /\ (res = "closed") <=> GroupClosed
  /\ IF res = "closed"
     THEN consTask' = "done" /\ wg' = wg - 1
     ELSE consTask' = "loop" /\ UNCHANGED wg
  /\ UNCHANGED <<mainPc, procTask, procBuf, warmTask, warmLeft, httpTask,
                 exitCode, ctxCancelled, pipeNoCtx>>

\* cache.Fill: storage.GetOrders; an error is logged by main and the task ends.
WarmGet(ok) ==
  /\ Running /\ warmTask = "get"
  /\ IF ok /\ ~ctxCancelled
     THEN warmTask' = "set" /\ warmLeft' = WarmOrders /\ UNCHANGED wg
     ELSE warmTask' = "done" /\ wg' = wg - 1 /\ UNCHANGED warmLeft
  /\ UNCHANGED <<mainPc, procTask, procBuf, consTask, httpTask, exitCode,
                 ctxCancelled, pipeNoCtx>>

\* main ending the process when a Set of the warmer fails.
WarmSet_Fatal(ok) ==
  /\ Running /\ warmTask = "set"
  /\ IF ok /\ ~ctxCancelled /\ warmLeft > 1
     THEN warmLeft' = warmLeft - 1 /\ UNCHANGED <<warmTask, wg, exitCode>>
     ELSE IF ok /\ ~ctxCancelled
     THEN warmTask' = "done" /\ wg' = wg - 1 /\ warmLeft' = 0 /\ UNCHANGED exitCode
     ELSE warmTask' = "done" /\ exitCode' = 1 /\ UNCHANGED <<wg, warmLeft>>
  /\ UNCHANGED <<mainPc, procTask, procBuf, consTask, httpTask,
                 ctxCancelled, pipeNoCtx>>

\* cache.Fill: one Set of the loop; the task ends after the last order or at
\* the first error.
WarmSet(ok) ==
  /\ Running /\ warmTask = "set"
  /\ IF ok /\ ~ctxCancelled /\ warmLeft > 1
     THEN warmLeft' = warmLeft - 1 /\ UNCHANGED <<warmTask, wg>>
     ELSE /\ warmTask' = "done" /\ wg' = wg - 1
          /\ warmLeft' = IF ok /\ ~ctxCancelled THEN 0 ELSE warmLeft
  /\ UNCHANGED <<mainPc, procTask, procBuf, consTask, httpTask, exitCode,
                 ctxCancelled, pipeNoCtx>>

\* The goroutine of srv.ListenAndServe: the listener is bound and the call
\* blocks, or it returns an error at once; it returns ErrServerClosed after
\* Shutdown.  Every return has err != nil, so the task calls os.Exit(1); its
\* deferred wg.Done() does not run.
HttpServe(ok) ==
  /\ Running
  /\ \/ /\ httpTask = "start"
        /\ IF ok THEN httpTask' = "serving" /\ UNCHANGED exitCode
                 ELSE exitCode' = 1 /\ UNCHANGED httpTask
     \/ /\ httpTask = "closed" /\ ok
        /\ exitCode' = 1
        /\ UNCHANGED httpTask
  /\ UNCHANGED <<mainPc, wg, procTask, procBuf, consTask, warmTask, warmLeft,
                 ctxCancelled, pipeNoCtx>>

MainNext ==
  \/ \E ok \in BOOLEAN : MainStorage(ok)
  \/ \E ok \in BOOLEAN : MainCache(ok)
  \/ \E ok \in BOOLEAN : MainConsumer(ok)
  \/ MainServer
  \/ \E ok \in BOOLEAN : MainShutdown(ok)
  \/ ProcReceive
  \/ ProcDone
  \/ ConsLoop
  \/ \E res \in ConsumeResults : ConsReturn(res)
  \/ \E ok \in BOOLEAN : WarmGet(ok)
  \/ \E ok \in BOOLEAN : WarmSet(ok)
  \/ \E ok \in BOOLEAN : HttpServe(ok)

MainSpec == MainInit /\ [][MainNext]_vars

\* The steps of main that wait for nothing outside the process: all but the
\* receive from sigchan.
MainProgress ==
  \/ \E ok \in BOOLEAN : MainStorage(ok) \/ MainCache(ok) \/ MainConsumer(ok)
  \/ MainServer
  \/ \E ok \in BOOLEAN : MainShutdown(ok) /\ mainPc # "signal"

\* Every goroutine that can take a step eventually takes one; a cancelled
\* session ends.  The interrupt and the arrival of messages are not forced.
FairMainSpec ==
  /\ MainSpec
  /\ WF_vars(MainProgress)
  /\ WF_vars(ProcDone)
  /\ WF_vars(ConsLoop)
  /\ WF_vars((\E res \in ConsumeResults : ConsReturn(res)) /\ ctxCancelled)
  /\ WF_vars((\E ok \in BOOLEAN : WarmGet(ok)) \/ (\E ok \in BOOLEAN : WarmSet(ok)))
  /\ WF_vars(\E ok \in BOOLEAN : HttpServe(ok))

\* ================================================================ ReadSpec
\* The read path: GET /order/{order_uid} served from Redis with PostgreSQL
\* behind it, the asynchronous cache write, and the cache warmer.
pipeNoRead == <<brokerVars, storeVars, ctxCancelled, consVars, procVars, crashes,
                rebalances, ackRecv, handleVars, txVars, mainVars>>

\* The process runs until a goroutine panics.
Alive == ~panicked

ReadInit ==
  /\ topic = IdleTopic
  /\ InitDurable
  /\ InitVolatile
  /\ InitHandle
  /\ InitTx
  /\ InitMain
  /\ InitRead
  /\ InitWarm

\* The order processor commits a SaveOrder while reads are served: the row
\* unless it exists, and the items.  A redelivered order is saved again.
StoreSave(order) ==
  /\ Alive
  /\ \/ order.order_uid \notin ordersTbl
     \/ /\ Len(order.items) > 0
        /\ \A c \in ChrtIDs :
             itemsTbl[<<order.order_uid, c>>] < MaxItemCopies * CountIn(order.items, c)
  /\ ordersTbl' = saveOrder(ordersTbl, order)
  /\ itemsTbl' = saveItems(itemsTbl, order.items, order.order_uid)
  /\ UNCHANGED <<brokerVars, ctxCancelled, consVars, procVars, envVars, ackRecv, aux>>

\* resp.Error(msg) and Response{resp.OK(), orderData} as rendered JSON.
RespError(msg) == [status |-> "Error", error |-> msg, order |-> NilOrder]
RespOK(order) == [status |-> "OK", error |-> "", order |-> order]

\* json.Marshal and json.Unmarshal of *models.OrderData.
Marshal(order) == [json_order_uid |-> order.order_uid, json_items |-> order.items]
Unmarshal(bytes) == [order_uid |-> bytes.json_order_uid, items |-> bytes.json_items]

\* Outcomes of a lookup besides what the data gives: the call works, or an
\* implementation of the Storage interface returns ErrEmptyOrder or another
\* error.
LookupResults == {"ok", "ErrEmptyOrder", "error"}

\* redis Client.GetOrder: redis.Nil becomes ErrNoOrder, a value is decoded.
CacheGetOrder(uid, res) ==
  IF res # "ok" THEN [err |-> res, order |-> NilOrder]
  ELSE IF cache[uid] = <<>> THEN [err |-> "ErrNoOrder", order |-> NilOrder]
  ELSE [err |-> "nil", order |-> Unmarshal(cache[uid][1])]

\* A store lookup that returns, next to an error, an order made up from the
\* order_uid asked for.
StoreGetOrder_Phantom(uid, res) ==
  IF res # "ok"
  THEN [err |-> res, order |-> [order_uid |-> uid, items |-> [c \in ChrtIDs |-> 1]]]
  ELSE LET g == GetOrder(uid) IN
         IF g.err = "nil"
         THEN [err |-> "nil", order |-> [order_uid |-> g.order_uid, items |-> g.items]]
         ELSE [err |-> g.err, order |-> NilOrder]

\* storage.GetOrder as the handler sees it.
StoreGetOrder(uid, res) ==
  IF res # "ok" THEN [err |-> res, order |-> NilOrder]
  ELSE LET g == GetOrder(uid) IN
         IF g.err = "nil"
         THEN [err |-> "nil", order |-> [order_uid |-> g.order_uid, items |-> g.items]]
         ELSE [err |-> g.err, order |-> NilOrder]

\* redis Client.SaveOrder: SET order_uid -> JSON, no expiry.
CacheSaveOrder(c, order) == [c EXCEPT ![order.order_uid] = <<Marshal(order)>>]

\* The handler up to the cache lookup: an empty order_uid is answered at once.
ReqStart(r, uid) ==
  /\ Alive /\ rPc[r] = "idle"
  /\ rUID' = [rUID EXCEPT ![r] = uid]
  /\ IF uid = ""
     THEN /\ rResp' = [rResp EXCEPT ![r] = Append(rResp[r], RespError("order uid is empty"))]
          /\ rPc' = [rPc EXCEPT ![r] = "done"]
     ELSE /\ rPc' = [rPc EXCEPT ![r] = "cacheGet"]
          /\ UNCHANGED rResp
  /\ UNCHANGED <<cache, cacheFails, panicked, rData, rErr, rStore, rHit, rCancel, wPc,
                 warmVars, storeFails, pipeNoRead>>

\* The handler going to the store after every cache lookup.
ReqCacheGet_AlwaysStore(r, res) ==
  /\ Alive /\ rPc[r] = "cacheGet"
  /\ res = "ok" \/ cacheFails < MaxCacheFailures
  /\ LET g == CacheGetOrder(rUID[r], res) IN
       /\ rData' = [rData EXCEPT ![r] = g.order]
       /\ rErr' = [rErr EXCEPT ![r] = g.err]
       /\ rHit' = [rHit EXCEPT ![r] = (g.err = "nil")]
       /\ rPc' = [rPc EXCEPT ![r] = "storeGet"]
  /\ cacheFails' = IF res = "ok" THEN cacheFails ELSE cacheFails + 1
  /\ UNCHANGED <<cache, panicked, rUID, rResp, rStore, rCancel, wPc,
                 warmVars, storeFails, pipeNoRead>>

\* orderData, err := cache.GetOrder(ctx, orderUID); only ErrNoOrder leads to
\* the store.
ReqCacheGet(r, res) ==
  /\ Alive /\ rPc[r] = "cacheGet"
  /\ res = "ok" \/ cacheFails < MaxCacheFailures
  /\ LET g == CacheGetOrder(rUID[r], res) IN
       /\ rData' = [rData EXCEPT ![r] = g.order]
       /\ rErr' = [rErr EXCEPT ![r] = g.err]
       /\ rHit' = [rHit EXCEPT ![r] = (g.err = "nil")]
       /\ rPc' = [rPc EXCEPT ![r] = IF g.err = "ErrNoOrder" THEN "storeGet" ELSE "check"]
  /\ cacheFails' = IF res = "ok" THEN cacheFails ELSE cacheFails + 1
  /\ UNCHANGED <<cache, panicked, rUID, rResp, rStore, rCancel, wPc,
                 warmVars, storeFails, pipeNoRead>>

\* orderData, err = storage.GetOrder(ctx, orderUID): ErrNoOrder is answered
\* with "order not found"; after any other outcome the goroutine of the cache
\* write is started.
ReqStoreGet(r, res) ==
  /\ Alive /\ rPc[r] = "storeGet"
  /\ res = "ok" \/ storeFails < MaxStoreFailures
  /\ LET g == StoreGetOrder(rUID[r], res) IN
       /\ rData' = [rData EXCEPT ![r] = g.order]
       /\ rErr' = [rErr EXCEPT ![r] = g.err]
       /\ IF g.err = "ErrNoOrder"
          THEN /\ rResp' = [rResp EXCEPT ![r] = Append(rResp[r], RespError("order not found"))]
               /\ rPc' = [rPc EXCEPT ![r] = "done"]
               /\ UNCHANGED wPc
          ELSE /\ wPc' = [wPc EXCEPT ![r] = "ready"]
               /\ rPc' = [rPc EXCEPT ![r] = "check"]
               /\ UNCHANGED rResp
  /\ rStore' = [rStore EXCEPT ![r] = rStore[r] + 1]
  /\ storeFails' = IF res = "ok" THEN storeFails ELSE storeFails + 1
  /\ UNCHANGED <<cache, cacheFails, panicked, rUID, rHit, rCancel,
                 warmVars, pipeNoRead>>

\* The goroutine: err = cache.SaveOrder(ctx, orderData).  It assigns the
\* handler's err; SaveOrder dereferences orderData, so a nil orderData is a
\* panic outside the handler's goroutine, which ends the process.
CacheWrite(r, ok) ==
  /\ Alive /\ wPc[r] = "ready"
  /\ ok \/ cacheFails < MaxCacheFailures
  /\ IF rData[r] = NilOrder
     THEN /\ panicked' = TRUE
          /\ wPc' = [wPc EXCEPT ![r] = "panic"]
          /\ UNCHANGED <<cache, rErr, cacheFails>>
     ELSE /\ wPc' = [wPc EXCEPT ![r] = "done"]
          /\ cache' = IF ok THEN CacheSaveOrder(cache, rData[r]) ELSE cache
          /\ rErr' = [rErr EXCEPT ![r] = IF ok THEN "nil" ELSE "error"]
          /\ cacheFails' = IF ok THEN cacheFails ELSE cacheFails + 1
          /\ UNCHANGED panicked
  /\ UNCHANGED <<rPc, rUID, rData, rResp, rStore, rHit, rCancel,
                 warmVars, storeFails, pipeNoRead>>

\* The envelope the handler renders for the err and orderData it reads.
Respond(err, order) ==
  IF err = "ErrEmptyOrder" THEN RespError("empty order")
  ELSE IF err # "nil" THEN RespError("failed to get order")
  ELSE RespOK(order)

\* The rest of the handler: the checks of err and the response.  err is read
\* without synchronisation with the goroutine that assigns it.
ReqRespond(r) ==
  /\ Alive /\ rPc[r] = "check"
  /\ rResp' = [rResp EXCEPT ![r] = Append(rResp[r], Respond(rErr[r], rData[r]))]
  /\ rPc' = [rPc EXCEPT ![r] = "done"]
  /\ UNCHANGED <<cache, cacheFails, panicked, rUID, rData, rErr, rStore, rHit, rCancel,
                 wPc, warmVars, storeFails, pipeNoRead>>

\* The client disconnects: r.Context() is cancelled.  The handler and its
\* goroutine use the context given to New, not the request's.
ReqCancel(r) ==
  /\ Alive /\ rPc[r] \notin {"idle"} /\ ~rCancel[r]
  /\ rCancel' = [rCancel EXCEPT ![r] = TRUE]
  /\ UNCHANGED <<cache, cacheFails, panicked, rPc, rUID, rData, rErr, rResp, rStore,
                 rHit, wPc, warmVars, storeFails, pipeNoRead>>

\* A set as a sequence, in some fixed order.
RECURSIVE SeqOf(_)
SeqOf(S) ==
  IF S = {} THEN <<>>
  ELSE LET x == CHOOSE y \in S : TRUE IN <<x>> \o SeqOf(S \ {x})

\* The rows of orders o JOIN order_items i ON o.order_uid = i.order_uid, as
\* <<order_uid, chrt_id>>: the k-th copies of all item rows, then the next
\* copies, so the rows of one order are not adjacent.
KeyOrder == SeqOf(ItemKeys)

RECURSIVE JoinedRowsFrom(_)
JoinedRowsFrom(k) ==
  LET Joined(key) == key[1] \in ordersTbl /\ itemsTbl[key] >= k
      rows == SelectSeq(KeyOrder, Joined)
  IN IF rows = <<>> THEN <<>> ELSE rows \o JoinedRowsFrom(k + 1)

JoinedRows == JoinedRowsFrom(1)

\* fillOrderData: the order of a row, without items.
fillOrderData(row) == [order_uid |-> row[1], items |-> [c \in ChrtIDs |-> 0]]

\* appendItems: the item of the row is appended to the order.
appendItems(row, orderData) ==
  [orderData EXCEPT !.items = [@ EXCEPT ![row[2]] = @ + 1]]

\* No entry of ordersMap.
NoEntries == [u \in OrderUIDs |-> <<>>]

\* The loop body of GetOrders starting a new order with every row.
GroupRow_Overwrite(ordersMap, row) ==
  [ordersMap EXCEPT ![row[1]] = <<appendItems(row, fillOrderData(row))>>]

\* The loop body of GetOrders: the order of the row's order_uid is taken from
\* ordersMap, created and entered when it is not there, and gets the item.
GroupRow(ordersMap, row) ==
  [ordersMap EXCEPT ![row[1]] =
     <<appendItems(row, IF @ # <<>> THEN @[1] ELSE fillOrderData(row))>>]

\* for _, row := range joinedRows
RECURSIVE GroupRows(_, _)
GroupRows(rows, ordersMap) ==
  IF rows = <<>> THEN ordersMap
  ELSE GroupRows(Tail(rows), GroupRow(ordersMap, Head(rows)))

\* Storage.GetOrders: no joined row gives ErrNoOrder; otherwise the rows are
\* grouped in a map by order_uid and the orders of the map are returned.
GetOrders ==
  LET joinedRows == JoinedRows IN
    IF Len(joinedRows) = 0
    THEN [err |-> "ErrNoOrder", orders |-> {}]
    ELSE LET ordersMap == GroupRows(joinedRows, NoEntries) IN
           [err |-> "nil",
            orders |-> {ordersMap[u][1] : u \in {v \in OrderUIDs : ordersMap[v] # <<>>}}]

\* Warm: orders, err := storage.GetOrders(ctx); an error is returned.
WarmGetOrders(ok) ==
  /\ Alive /\ warmPc = "idle"
  /\ ok \/ storeFails < MaxStoreFailures
  /\ LET g == GetOrders IN
       IF ok /\ g.err = "nil"
       THEN /\ warmPc' = "loop"
            /\ warmOrders' = g.orders
            /\ warmRead' = g.orders
            /\ UNCHANGED warmErr
       ELSE /\ warmPc' = "done"
            /\ warmErr' = "can't get orders"
            /\ UNCHANGED <<warmOrders, warmRead>>
  /\ storeFails' = IF ok THEN storeFails ELSE storeFails + 1
  /\ UNCHANGED <<readVars, pipeNoRead>>

\* Warm: one pass of the loop, json.Marshal and Set of one order; the first
\* error is returned and the rest of the orders is left out.
WarmSetOrder(order, ok) ==
  /\ Alive /\ warmPc = "loop" /\ order \in warmOrders
  /\ ok \/ cacheFails < MaxCacheFailures
  /\ IF ok
     THEN /\ cache' = CacheSaveOrder(cache, order)
          /\ warmOrders' = warmOrders \ {order}
          /\ UNCHANGED <<warmPc, warmErr, cacheFails>>
     ELSE /\ warmPc' = "done"
          /\ warmErr' = "can't set order"
          /\ cacheFails' = cacheFails + 1
          /\ UNCHANGED <<cache, warmOrders>>
  /\ UNCHANGED <<panicked, rPc, rUID, rData, rErr, rResp, rStore, rHit, rCancel, wPc,
                 warmRead, storeFails, pipeNoRead>>

\* Warm: the loop is over, return nil.
WarmReturn ==
  /\ Alive /\ warmPc = "loop" /\ warmOrders = {}
  /\ warmPc' = "done"
  /\ warmErr' = "nil"
  /\ UNCHANGED <<readVars, warmOrders, warmRead, storeFails, pipeNoRead>>

ReadNext ==
  \/ \E order \in SaveOrders : StoreSave(order)
  \/ \E r \in Reqs, uid \in OrderUIDs \cup {""} : ReqStart(r, uid)
  \/ \E r \in Reqs, res \in LookupResults : ReqCacheGet(r, res)
  \/ \E r \in Reqs, res \in LookupResults : ReqStoreGet(r, res)
  \/ \E r \in Reqs, ok \in BOOLEAN : CacheWrite(r, ok)
  \/ \E r \in Reqs : ReqRespond(r)
  \/ \E r \in Reqs : ReqCancel(r)
  \/ \E ok \in BOOLEAN : WarmGetOrders(ok)
  \/ \E order \in warmOrders, ok \in BOOLEAN : WarmSetOrder(order, ok)
  \/ WarmReturn

ReadSpec == ReadInit /\ [][ReadNext]_vars

\* ---------------------------------------------------------------- bulk read
\* The warmer started on any tables the schema allows: an item row has an
\* orders row (REFERENCES orders), every item up to MaxItemCopies times.
BulkInit ==
  /\ topic = IdleTopic
  /\ committed = [p \in Partitions |-> 0]
  /\ ordersTbl \in SUBSET OrderUIDs
  /\ itemsTbl \in [ItemKeys -> 0 .. MaxItemCopies]
  /\ \A key \in ItemKeys : itemsTbl[key] > 0 => key[1] \in ordersTbl
  /\ crashes = 0 /\ rebalances = 0 /\ storeFails = 0
  /\ ackRecv = {}
  /\ InitVolatile
  /\ InitHandle
  /\ InitTx
  /\ InitMain
  /\ InitRead
  /\ InitWarm

BulkNext ==
  \/ \E ok \in BOOLEAN : WarmGetOrders(ok)
  \/ \E order \in warmOrders, ok \in BOOLEAN : WarmSetOrder(order, ok)
  \/ WarmReturn

BulkSpec == BulkInit /\ [][BulkNext]_vars

\* Every handler, every goroutine of a cache write and the warmer go on
\* running; requests arrive and clients disconnect as they like.
FairReadSpec ==
  /\ ReadSpec
  /\ \A r \in Reqs :
       /\ WF_vars(\E res \in LookupResults : ReqCacheGet(r, res))
       /\ WF_vars(\E res \in LookupResults : ReqStoreGet(r, res))
       /\ WF_vars(\E ok \in BOOLEAN : CacheWrite(r, ok))
       /\ WF_vars(ReqRespond(r))
  /\ WF_vars(\E ok \in BOOLEAN : WarmGetOrders(ok))
  /\ WF_vars(\E order \in warmOrders, ok \in BOOLEAN : WarmSetOrder(order, ok))
  /\ WF_vars(WarmReturn)

\* ---------------------------------------------------------------- claims
\* The order of a message is in the store: its row and all its items.
Present(order) ==
  /\ order.order_uid \in ordersTbl
  /\ \A c \in ChrtIDs : itemsTbl[<<order.order_uid, c>>] >= CountIn(order.items, c)

\* C1: the committed offset of a partition never passes a message that was
\* not acknowledged on commitChan.
C1_CommitHoldsBack ==
  \A m \in Msgs : committed[m.partition] > m.offset => m \in ackRecv

\* C2: a message the processor publishes on commitChan, or has published, has
\* its order in the store, also once the offset commit covers it.
C2_AckedIsStored ==
  /\ \A i \in DOMAIN taskPc :
       taskPc[i] = "ack" => Value(orders[i]).valid /\ Present(Value(orders[i]))
  /\ \A m \in ackRecv : Value(m).valid /\ Present(Value(m))

C2_Witness ==
  \E m \in ackRecv : committed[m.partition] > m.offset /\ Present(Value(m))

\* C3: after a kill and restart no decodable message is lost: a message the
\* committed offset has passed is not delivered again, so its order is in the
\* store.
C3_NoOrderLost ==
  crashes > 0 =>
    \A m \in Msgs :
      (Value(m).valid /\ committed[m.partition] > m.offset) => Present(Value(m))

\* C8: a committed position covers no offset above the highest offset
\* received on commitChan for that partition.
C8_CommitBelowMaxAck ==
  \A p \in Partitions :
    committed[p] > 0 =>
      \E m \in ackRecv : m.partition = p /\ committed[p] - 1 <= m.offset

C8_Witness ==
  \E p \in Partitions :
    /\ committed[p] >= 2
    /\ Msg(p, committed[p] - 1) \in ackRecv
    /\ Msg(p, committed[p] - 2) \in ackRecv

\* C9: when ConsumeClaim returns, every offset marked in the session is
\* committed.
C9_ReturnCommitted ==
  [][\A p \in Partitions :
       (claimPc[p] = "select" /\ claimPc'[p] = "returned") => committed' = marked']_vars

\* C4: at most MaxWorkersCount handlers run at once, and a Handle call goes
\* on to its handler only by taking a token that is in the pool.
RunningHandlers == {c \in Callers : hPc[c] = "run"}

C4_AtMostN ==
  /\ [](Cardinality(RunningHandlers) <= MaxWorkersCount)
  /\ [][\A c \in Callers : (hPc[c] = "wait" /\ hPc'[c] = "run") => pool > 0]_vars

C4_Witness ==
  /\ Cardinality(RunningHandlers) = MaxWorkersCount
  /\ pool = 0
  /\ \E c \in Callers : hPc[c] = "wait"
  /\ \E c \in Callers : hPc[c] = "done"

\* C5: a reader of the tables sees, of every order_uid, the row with all the
\* items of a call or nothing; the tables change only when a call commits,
\* then by its row and all its items, and a call that fails leaves them as
\* they were.
C5_Atomic ==
  /\ [](\A u \in OrderUIDs, c \in ChrtIDs :
          IF u \in ordersTbl
          THEN itemsTbl[<<u, c>>] >= CountIn(OrderOf(u).items, c)
          ELSE itemsTbl[<<u, c>>] = 0)
  /\ [][/\ (storeVars' # storeVars) =>
              (\E s \in Savers :
                 /\ txPc[s] = "items" /\ txPc'[s] = "done"
                 /\ ordersTbl' = ordersTbl \cup {txOrder[s].order_uid}
                 /\ itemsTbl' = saveItems(itemsTbl, txOrder[s].items,
                                          txOrder[s].order_uid))
         /\ \A s \in Savers :
              (txPc[s] # "failed" /\ txPc'[s] = "failed") =>
                 (storeVars' = storeVars /\ txErr'[s] # "")]_vars

C5_Witness ==
  \E s, t \in Savers :
    /\ txErr[s] = "commit" /\ txOrder[s] = OrderA /\ "o1" \notin ordersTbl
    /\ txPc[t] = "done" /\ txOrder[t] = OrderB

\* C6: however often SaveOrder ran with an order, the tables hold one row of
\* it and each of its items once.
C6_Idempotent ==
  \A u \in ordersTbl, c \in ChrtIDs :
    itemsTbl[<<u, c>>] = CountIn(OrderOf(u).items, c)

\* C7: GetOrder of an order_uid that has a row returns the order with the
\* item multiset that was saved, an empty one included.
C7_GetOrderExact ==
  \A u \in ordersTbl :
    /\ GetOrder(u).err = "nil"
    /\ GetOrder(u).order_uid = u
    /\ \A c \in ChrtIDs : GetOrder(u).items[c] = CountIn(OrderOf(u).items, c)

\* C10: once the interrupt has cancelled the root context, with every task
\* started and the HTTP server listening, the tasks report completion, the
\* barrier wait returns, consumer and server are closed and the process ends
\* with exit code 0.
C10_ShutdownTerminates ==
  (ctxCancelled /\ httpTask = "serving") ~> (exitCode = 0)

\* C11: Consumer.Close and srv.Shutdown are invoked only after the processor,
\* the warmer, the consumer loop and the HTTP server task have all reported
\* completion on the WaitGroup.
TasksRunning ==
  {t \in {procTask, warmTask, consTask, httpTask} : t \notin {"none", "done"}}

C11_CloseAfterBarrier ==
  mainPc \in {"close", "shutdown", "return"} =>
    (wg = 0 /\ TasksRunning = {})

C11_Witness ==
  /\ mainPc = "wgWait" /\ ctxCancelled /\ wg > 0
  /\ procTask = "done" /\ warmTask = "done" /\ consTask = "done"
  /\ TasksRunning # {}

C13_LazyFill ==
  \A r \in Reqs :
    (wPc[r] = "ready" /\ rData[r] # NilOrder)
      ~> (\/ wPc[r] = "done" /\ rErr[r] = "error"
          \/ /\ rUID[r] \in OrderUIDs
             /\ CacheGetOrder(rUID[r], "ok") = [err |-> "nil", order |-> rData[r]])

\* C14: the handler calls storage.GetOrder only after cache.GetOrder returned
\* ErrNoOrder; a request whose order_uid has an entry in the cache never goes
\* to the store, and a cache hit is answered with the cached order.
C14_StoreOnlyOnMiss ==
  /\ [][\A r \in Reqs :
          /\ (rStore'[r] # rStore[r]) => (rPc[r] = "storeGet" /\ rErr[r] = "ErrNoOrder")
          /\ (rPc[r] = "cacheGet" /\ rPc'[r] # "cacheGet" /\ cache[rUID[r]] # <<>>)
               => (rPc'[r] = "check" /\ rStore'[r] = 0)]_vars
  /\ [](\A r \in Reqs :
          rHit[r] => /\ rStore[r] = 0 /\ wPc[r] = "none"
                     /\ rPc[r] = "done" => rResp[r] = <<RespOK(rData[r])>>)

\* A request answered from an entry that the lazy fill of another request
\* wrote.
C14_Witness ==
  \E r, q \in Reqs :
    /\ rPc[r] = "done" /\ rHit[r] /\ rStore[r] = 0
    /\ rResp[r] = <<RespOK(Unmarshal(cache[rUID[r]][1]))>>
    /\ q # r /\ rUID[q] = rUID[r] /\ wPc[q] = "done" /\ rStore[q] = 1
    /\ warmPc = "idle"

\* What the lookups of a request returned: the error of the store lookup if
\* the cache missed, of the cache lookup otherwise.  A started cache write
\* with an order means the store lookup returned nil.
LookupErr(r) ==
  IF wPc[r] # "none" /\ rData[r] # NilOrder THEN "nil" ELSE rErr[r]

\* C15: every answered request got exactly one envelope, the one its
\* order_uid and the outcomes of its lookups call for.
C15_OneEnvelope ==
  \A r \in Reqs :
    IF rPc[r] # "done" THEN rResp[r] = <<>>
    ELSE rResp[r] =
           << IF rUID[r] = "" THEN RespError("order uid is empty")
              ELSE IF LookupErr(r) = "ErrNoOrder" THEN RespError("order not found")
              ELSE IF LookupErr(r) = "ErrEmptyOrder" THEN RespError("empty order")
              ELSE IF LookupErr(r) # "nil" THEN RespError("failed to get order")
              ELSE RespOK(rData[r]) >>

\* C16: the goroutine of the cache write is started only after a store lookup
\* that returned an order without error; no write is attempted with a nil
\* order.
C16_WriteOnlyOnSuccess ==
  \A r \in Reqs :
    wPc[r] # "none" => (rStore[r] = 1 /\ rData[r] # NilOrder /\ LookupErr(r) = "nil")

\* C17: when the client has disconnected after a successful store lookup,
\* the cache write still runs: unless the cache refuses it, the order_uid
\* becomes present in the cache.
C17_WriteSurvivesCancel ==
  \A r \in Reqs :
    (rCancel[r] /\ wPc[r] = "ready" /\ rData[r] # NilOrder)
      ~> (\/ wPc[r] = "done" /\ rErr[r] = "error"
          \/ rUID[r] \in OrderUIDs /\ cache[rUID[r]] # <<>>)

\* C18: when Warm returns nil, every order the bulk read returned is in the
\* cache under its order_uid, and the cached value decodes to that order.
C18_WarmComplete ==
  [][(warmPc = "loop" /\ warmErr' = "nil") =>
       \A o \in warmRead :
         /\ cache'[o.order_uid] # <<>>
         /\ Unmarshal(cache'[o.order_uid][1]) = o]_vars

C20_OfferedInOrder ==
  \A p \in Partitions :
    \A i, j \in DOMAIN offered[p] :
      i < j => offered[p][i] < offered[p][j]

\* A session that has sent every message of the partition.
C20_Witness ==
  \E p \in Partitions :
    /\ Len(offered[p]) = MsgsPerPartition
    /\ loopPc = "consume"

\* C21: a failure of postgres.New, redis.New or kafka.NewConsumer ends the
\* process with exit code 1 at that step, and no component that main starts
\* after that step has been started.
C21_StartupFatal ==
  /\ [][(mainPc \in {"storage", "cache", "consumer"} /\ mainPc' = mainPc /\ exitCode' # exitCode)
          => exitCode' = 1]_vars
  /\ [][(mainPc \in {"storage", "cache", "consumer"} /\ mainPc' # mainPc)
          => (exitCode' = -1 /\ wg' = wg + 1)]_vars
  /\ [](mainPc = "storage" =>
          procTask = "none" /\ warmTask = "none" /\ consTask = "none" /\ httpTask = "none")
  /\ [](mainPc = "cache" => warmTask = "none" /\ consTask = "none" /\ httpTask = "none")
  /\ [](mainPc = "consumer" => consTask = "none" /\ httpTask = "none")
  /\ [](exitCode = 1 => mainPc # "server")

\* The store is up and the cache is down: exit 1 with the processor started
\* and neither warmer, consumer nor HTTP server.
C21_Witness ==
  /\ exitCode = 1 /\ mainPc = "cache"
  /\ procTask # "none"
  /\ warmTask = "none" /\ consTask = "none" /\ httpTask = "none"

\* C22: the loop over orderChan and commitChan does not deadlock: in no
\* reachable state is every claim loop blocked in its send on orderChan while
\* the processor is inside processBatch waiting for tasks that are blocked in
\* their send on commitChan.
C22_NoDeadlock ==
  ~ (/\ InBatch
     /\ \A p \in Partitions : claimPc[p] = "send"
     /\ \E i \in DOMAIN taskPc : taskPc[i] = "ack"
     /\ \A i \in DOMAIN taskPc : taskPc[i] \in {"ack", "done"})


\* C23: once the session context is cancelled (and the process is not killed
\* any more), every claim loop that is inside its loop, in the select or
\* holding a message it has not yet handed over, eventually returns with the
\* marked offsets committed.
C23_ClaimLoopReturns ==
  \A p \in Partitions :
    (crashes = MaxCrashes /\ sessCancelled /\ claimPc[p] \in {"select", "send"})
      ~> (claimPc[p] = "returned" /\ committed[p] = marked[p])

\* C24: once the root context is cancelled (and the process is not killed any
\* more), ProcessOrders eventually returns.
C24_ProcessorReturns ==
  (crashes = MaxCrashes /\ ctxCancelled) ~> (procPc = "done")


\* Task i hands its acknowledgement to a claim loop in this step.
AckStep(i) ==
  /\ i \in DOMAIN taskPc /\ taskPc[i] = "ack"
  /\ i \in DOMAIN taskPc' /\ taskPc'[i] = "done"

C27_FlushIsBarrier ==
  /\ [](/\ pool \in 0 .. MaxWorkersCount
        /\ ~InBatch => pool = 0 /\ taskPc = <<>>)
  /\ [][/\ (InBatch /\ ~InBatch' /\ crashes' = crashes) =>
             /\ \A i \in DOMAIN taskPc : taskPc[i] = "done"
             /\ pool = MaxWorkersCount
             /\ pool' = 0
        /\ (InBatch /\ InBatch') =>
             /\ orders' = orders
             /\ DOMAIN taskPc' = DOMAIN taskPc
             /\ \A i \in DOMAIN taskPc : taskPc[i] = "done" => taskPc'[i] = "done"
        /\ \A i \in 1 .. MaxWorkersCount : AckStep(i) => orders[i] \in ackRecv'
     ]_vars

\* processBatch has returned from a batch with an acknowledged message and
\* the processor is back in its select.
C27_Witness ==
  /\ crashes = 0 /\ procPc = "select" /\ pool = 0
  /\ \E p \in Partitions : marked[p] > 0 /\ offered[p] # <<>>


\* C28: between Create and Wait the tokens in the channel plus the Handle
\* calls that hold one are MaxWorkersCount, and a Handle call that returns,
\* with nil or with an error, puts its token back.
C28_TokensConserved ==
  /\ [](pool + Cardinality(RunningHandlers) = MaxWorkersCount)
  /\ [][\A c \in Callers :
          (hPc[c] = "run" /\ hPc'[c] = "done") => pool' = pool + 1]_vars

\* A call whose handler failed has returned while another holds a token.
C28_Witness ==
  /\ \E c \in Callers : hPc[c] = "done" /\ hErr[c] = "error"
  /\ \E c \in Callers : hPc[c] = "done" /\ hErr[c] = "nil"
  /\ RunningHandlers # {}


\* C29: ProcessMessages returns only from the top of its loop with the root
\* context cancelled, or when Consume returned the group-closed sentinel;
\* after any other result of Consume it is back at the top of the loop, from
\* where it calls Consume again if the context is not cancelled and returns,
\* without another session, if it is; and it does not stay at the top.
C29_OuterLoop ==
  /\ [][/\ (consTask # "done" /\ consTask' = "done") =>
             \/ consTask = "loop" /\ ctxCancelled
             \/ consTask = "consume" /\ GroupClosed
        /\ (consTask = "consume" /\ consTask' # consTask /\ ~GroupClosed) =>
             consTask' = "loop"
        /\ (consTask = "loop" /\ consTask' # consTask) =>
             consTask' = IF ctxCancelled THEN "done" ELSE "consume"
     ]_vars
  /\ (consTask = "loop") ~> (consTask # "loop" \/ ~Running)

\* ProcessMessages has returned after the cancel while main waits.
C29_Witness ==
  /\ Running /\ ctxCancelled /\ consTask = "done" /\ mainPc = "wgWait"


\* Task i leaves Pool.Handle in this step.
HandleStep(i) ==
  /\ i \in DOMAIN taskPc /\ taskPc[i] = "run"
  /\ i \in DOMAIN taskPc' /\ taskPc'[i] # "run"

\* C30: acknowledgements are per message.  A task offers an acknowledgement
\* only when its own Handle call returned nil, that is when its own payload
\* parsed and its own SaveOrder did not fail, and then its order is stored; the acknowledgement received is that of the task's own message,
\* marks that message only, and finishes that task only, which never
\* acknowledges again in the flush; a step of one task leaves the other tasks
\* of the batch where they are, and nothing else is ever acknowledged.
C30_AckPerMessage ==
  [][/\ \A i \in 1 .. MaxWorkersCount :
          /\ AckStep(i) =>
               /\ ackRecv' = ackRecv \cup {orders[i]}
               /\ marked' = MarkMessage(marked, orders[i])
               /\ \A j \in DOMAIN taskPc \ {i} : taskPc'[j] = taskPc[j]
          /\ HandleStep(i) =>
               /\ taskPc'[i] = IF /\ Value(orders[i]).valid
                                  /\ ~ctxCancelled
                                  /\ storeFails' = storeFails
                               THEN "ack" ELSE "done"
               /\ taskPc'[i] = "ack" =>
                    Value(orders[i]).order_uid \in ordersTbl'
               /\ ackRecv' = ackRecv
               /\ \A j \in DOMAIN taskPc \ {i} : taskPc'[j] = taskPc[j]
          /\ (i \in DOMAIN taskPc /\ taskPc[i] = "done" /\ InBatch') =>
               taskPc'[i] = "done"
     /\ ackRecv' # ackRecv => \E i \in 1 .. MaxWorkersCount : AckStep(i)
    ]_vars

\* In one batch a message that failed stays unacknowledged next to one that
\* was acknowledged.
C30_Witness ==
  /\ InBatch
  /\ \E i, j \in DOMAIN taskPc :
       /\ taskPc[i] = "done" /\ orders[i] \notin ackRecv
       /\ taskPc[j] = "done" /\ orders[j] \in ackRecv


\* C31: a claim loop does not wait in its select for ever with an offset
\* that is marked and not committed while the session stays alive: the
\* ticker has the marked offsets committed without the count reaching
\* batchsize and without the session ending.
C31_PeriodicCommit ==
  \A p \in Partitions :
    []<>~(/\ loopPc = "consume" /\ ~sessCancelled
          /\ claimPc[p] = "select"
          /\ marked[p] > committed[p])


\* C32: the processor does not wait in its select for ever with messages in
\* its buffer while the context is not cancelled: buffered messages go to
\* the pool after a time even when the buffer never fills.
C32_TimedFlush ==
  []<>~(procPc = "select" /\ orders # <<>> /\ ~ctxCancelled)


\* C33: GetOrder returns ErrNoOrder exactly for an order_uid without an
\* orders row and for an order that was saved with an empty item list; a
\* request that reaches the store for such an order_uid is answered with
\* "order not found" and starts no cache write.
C33_NoOrderOnEmptyJoin ==
  /\ [](\A u \in OrderUIDs :
          (GetOrder(u).err = "ErrNoOrder")
            <=> (u \notin ordersTbl \/ OrderOf(u).items = <<>>))
  /\ [][\A r \in Reqs :
          (/\ rStore'[r] # rStore[r] /\ storeFails' = storeFails
           /\ (rUID[r] \notin ordersTbl \/ OrderOf(rUID[r]).items = <<>>))
            => /\ rResp'[r] = <<RespError("order not found")>>
               /\ rPc'[r] = "done"
               /\ wPc'[r] = "none"]_vars

\* A request for a stored order that has no items was answered with
\* "order not found".
C33_Witness ==
  \E r \in Reqs :
    /\ rPc[r] = "done" /\ rStore[r] = 1
    /\ rUID[r] \in ordersTbl /\ OrderOf(rUID[r]).items = <<>>
    /\ rResp[r] = <<RespError("order not found")>>


\* The order_uids that have an orders row and at least one item row.
WithItems == {u \in ordersTbl : \E c \in ChrtIDs : itemsTbl[<<u, c>>] > 0}

\* C34: GetOrders returns ErrNoOrder and no orders when no order has an item
\* row; otherwise exactly one order for each order_uid that has an item row,
\* with every item row of that order_uid and no other.
C34_BulkGrouped ==
  LET g == GetOrders IN
    IF WithItems = {}
    THEN g.err = "ErrNoOrder" /\ g.orders = {}
    ELSE /\ g.err = "nil"
         /\ {o.order_uid : o \in g.orders} = WithItems
         /\ \A u \in WithItems : Cardinality({o \in g.orders : o.order_uid = u}) = 1
         /\ \A o \in g.orders, c \in ChrtIDs : o.items[c] = itemsTbl[<<o.order_uid, c>>]

\* The warmer holds what the bulk read returned for two orders whose rows
\* alternate in the join, one of them with an item stored twice.
C34_Witness ==
  /\ warmPc = "loop" /\ Cardinality(warmRead) = 2
  /\ Cardinality(WithItems) = 2
  /\ \E key \in ItemKeys : itemsTbl[key] = 2
  /\ \A o \in warmRead, c \in ChrtIDs : o.items[c] = itemsTbl[<<o.order_uid, c>>]


\* C35: a request whose store lookup returned an order is answered with
\* status OK and that order, whatever the cache write of the request does
\* and whenever it runs.
C35_WriteFailureNotInResponse ==
  \A r \in Reqs :
    (rPc[r] = "done" /\ rStore[r] = 1 /\ wPc[r] # "none" /\ rData[r] # NilOrder)
      => rResp[r] = <<RespOK(rData[r])>>


\* C36: every order_uid that is a key of the cache has a row in the store; a
\* step that changes the cache enters an order_uid the store has, and a step
\* that saves an order in the store leaves the cache unchanged.
C36_CacheKeysInStore ==
  /\ [](\A u \in OrderUIDs : cache[u] # <<>> => u \in ordersTbl)
  /\ [][/\ \A u \in OrderUIDs :
             cache'[u] # cache[u] =>
               /\ u \in ordersTbl
               /\ cache'[u] # <<>> /\ Unmarshal(cache'[u][1]).order_uid = u
        /\ (ordersTbl' # ordersTbl \/ itemsTbl' # itemsTbl) => cache' = cache
     ]_vars

\* The fill of a request has entered an order while the warmer never ran.
C36_Witness ==
  /\ warmPc = "idle"
  /\ \E r \in Reqs :
       /\ wPc[r] = "done" /\ rErr[r] = "nil"
       /\ cache[rUID[r]] # <<>> /\ rUID[r] \in ordersTbl


\* C37: once an order_uid has a row in the store, no step changes what
\* GetOrder returns for it, and what the cache returns for an order_uid is
\* what the store returns for it now.
C37_CacheNeverStale ==
  /\ [][\A u \in OrderUIDs : u \in ordersTbl => GetOrder(u)' = GetOrder(u)]_vars
  /\ [](\A u \in OrderUIDs :
          cache[u] # <<>> =>
            CacheGetOrder(u, "ok") = StoreGetOrder(u, "ok"))


\* C38: an acknowledgement that a claim loop receives and marks is of a
\* message that was sent on orderChan during the session the loop belongs to.
C38_AckInSameSession ==
  [][\A i \in 1 .. MaxWorkersCount :
       AckStep(i) =>
         \E k \in DOMAIN offered[orders[i].partition] :
           offered[orders[i].partition][k] = orders[i].offset]_vars

====
